---- MODULE Spec2Model ----
(***************************************************************************)
(* A model of the CodeChef badge endpoints: the card + heatmap handler of  *)
(* src/api/codechef.js (lines 49-336), the older badge handler of the same *)
(* file (lines 1-47) and the fetch-based badge handler of                  *)
(* src/unnamed/part_000.                                                   *)
(*                                                                         *)
(* Strings are sequences of one-character strings, the upstream page is a  *)
(* sequence of tokens, a 32-bit word is the pair <<high half, low half>>   *)
(* of 16-bit halves, and time is counted in ticks of 1/TicksPerDay of a    *)
(* day in a time zone with a fixed offset.                                 *)
(***************************************************************************)
EXTENDS Integers, Sequences, FiniteSets, TLC

VARIABLES
  variant,       \* which handler serves the request: "card", "badge", "fetchBadge"
  query,         \* req.query.user, Undefined when the parameter is absent
  username,      \* the handler's username constant
  pc,            \* the handler's position
  fetchCount,    \* outbound requests started by this request
  req,           \* the outbound request: "none", "open", "receiving", "ended", "errored", "aborted", "closed"
  page,          \* the chunks the upstream has still to send
  status,        \* the upstream response's status code
  data,          \* the body accumulated by the 'data' listener
  promise,       \* the promise of fetchUrlRaw / fetch: state, and how often it settled
  res,           \* the HTTP response under construction
  clock,         \* the system clock
  now,           \* the handler's `now` (line 310)
  today,         \* buildHeatmapSvg's `today` (line 145)
  profileHtml,   \* the handler's profileHtml, Null or the body
  parsed,        \* the result of parseProfileHtml
  activityMap,   \* the result of parseActivityFromHtml
  usedActivity,  \* the map handed to buildHeatmapSvg
  rand,          \* the generator made by seededRandom: seeded, its state h, calls made
  heatmap,       \* the result of buildHeatmapSvg: rects, width, height, legend
  countArg,      \* colorForCount under test: its arguments
  colorRet,      \* colorForCount under test: its results
  runs           \* fallback generator under test: the invocations made

vars == <<variant, query, username, pc, fetchCount, req, page, status, data, promise, res,
          clock, now, today, profileHtml, parsed, activityMap, usedActivity, rand, heatmap,
          countArg, colorRet, runs>>

(***************************************************************************)
(* Bounds of the model.                                                    *)
(***************************************************************************)
MaxUserLen == 2      \* longest `user` parameter
TicksPerDay == 2     \* clock resolution: ticks per day
MaxDelay == 1        \* ticks that can pass between two reads of the clock
StartDay == 20088    \* the day the request arrives (days since 1970-01-01: 2024-12-31)
MaxCount == 12       \* largest count given to colorForCount under test
MaxRuns == 2         \* runs of the fallback loop that are compared

(***************************************************************************)
(* Program constants.                                                      *)
(***************************************************************************)
Weeks == 52          \* 52 * 7 days, cols
DaysPerWeek == 7     \* rows
Days == Weeks * DaysPerWeek
OneDay == TicksPerDay            \* 24 * 60 * 60 * 1000 ms
MinDates == 10       \* parseActivityFromHtml: fewer dates than this is no activity
MaxDates == 5000     \* parseActivityFromHtml stops collecting past this
RandRange == 9       \* Math.floor(rand() * 9)

Null == "null"
Undefined == <<"undefined">>
NullMap == [isNull |-> TRUE, map |-> <<>>]
MapOf(m) == [isNull |-> FALSE, map |-> m]

(***************************************************************************)
(* 32-bit arithmetic: Math.imul, ^, |, >>>, + of src/api/codechef.js 56-66 *)
(***************************************************************************)
Half == 2^16
Byte == 2^8

RECURSIVE XorBits(_, _, _)
XorBits(a, b, n) ==
  IF n = 0 THEN 0
  ELSE (((a % 2) + (b % 2)) % 2) + (2 * XorBits(a \div 2, b \div 2, n - 1))

RECURSIVE OrBits(_, _, _)
OrBits(a, b, n) ==
  IF n = 0 THEN 0
  ELSE (IF (a % 2) = 1 \/ (b % 2) = 1 THEN 1 ELSE 0) + (2 * OrBits(a \div 2, b \div 2, n - 1))

XorNibble == [a \in 0..15 |-> [b \in 0..15 |-> XorBits(a, b, 4)]]
OrNibble == [a \in 0..15 |-> [b \in 0..15 |-> OrBits(a, b, 4)]]

Xor8(a, b) == (XorNibble[a \div 16][b \div 16] * 16) + XorNibble[a % 16][b % 16]
Xor16(a, b) == (Xor8(a \div Byte, b \div Byte) * Byte) + Xor8(a % Byte, b % Byte)
Or8(a, b) == (OrNibble[a \div 16][b \div 16] * 16) + OrNibble[a % 16][b % 16]
Or16(a, b) == (Or8(a \div Byte, b \div Byte) * Byte) + Or8(a % Byte, b % Byte)

\* v ^ w
Xor32(v, w) == <<Xor16(v[1], w[1]), Xor16(v[2], w[2])>>
\* v | w
Or32(v, w) == <<Or16(v[1], w[1]), Or16(v[2], w[2])>>
\* v >>> n, 0 < n < 16
Shr32(v, n) == <<v[1] \div (2^n), (v[2] \div (2^n)) + ((v[1] % (2^n)) * (2^(16 - n)))>>
\* v + w, modulo 2^32
Add32(v, w) ==
  LET lo == v[2] + w[2]
  IN <<(v[1] + w[1] + (lo \div Half)) % Half, lo % Half>>
\* Math.imul(v, w): the low 32 bits of the product, by 8-bit limbs
Imul(v, w) ==
  LET a0 == v[2] % Byte
      a1 == v[2] \div Byte
      a2 == v[1] % Byte
      a3 == v[1] \div Byte
      b0 == w[2] % Byte
      b1 == w[2] \div Byte
      b2 == w[1] % Byte
      b3 == w[1] \div Byte
      c0 == a0 * b0
      c1 == (a0 * b1) + (a1 * b0) + (c0 \div Byte)
      c2 == (a0 * b2) + (a1 * b1) + (a2 * b0) + (c1 \div Byte)
      c3 == (a0 * b3) + (a1 * b2) + (a2 * b1) + (a3 * b0) + (c2 \div Byte)
  IN <<((c3 % Byte) * Byte) + (c2 % Byte), ((c1 % Byte) * Byte) + (c0 % Byte)>>

FnvOffset == <<33052, 40389>>   \* 2166136261 = 0x811C9DC5
FnvPrime == <<256, 403>>        \* 16777619 = 0x01000193
RandIncrement == <<27947, 31221>>   \* 0x6D2B79F5

(***************************************************************************)
(* Strings.                                                                *)
(***************************************************************************)
Alphabet == {" ", "a"}
CharCode(c) == CASE c = " " -> 32 [] c = "a" -> 97 [] c = "b" -> 98

RECURSIVE StringsUpTo(_)
StringsUpTo(n) ==
  IF n = 0 THEN {<<>>}
  ELSE LET shorter == StringsUpTo(n - 1)
       IN shorter \cup {Append(s, c) : s \in {t \in shorter : Len(t) = n - 1}, c \in Alphabet}

\* the values req.query.user can take
QueryValues == StringsUpTo(MaxUserLen) \cup {Undefined}

\* String.prototype.trim
RECURSIVE TrimStart(_)
TrimStart(s) == IF s # <<>> /\ Head(s) = " " THEN TrimStart(Tail(s)) ELSE s
RECURSIVE TrimEnd(_)
TrimEnd(s) == IF s # <<>> /\ s[Len(s)] = " " THEN TrimEnd(SubSeq(s, 1, Len(s) - 1)) ELSE s
Trim(s) == TrimEnd(TrimStart(s))

\* !v for a string or undefined
Falsy(v) == v = Undefined \/ v = <<>>

(***************************************************************************)
(* seededRandom, src/api/codechef.js 56-67                                 *)
(***************************************************************************)
\* lines 57-60: h after the characters i.. of seed have been mixed in
RECURSIVE SeedLoop(_, _, _)
SeedLoop(seed, i, h) ==
  IF i > Len(seed) THEN h
  ELSE SeedLoop(seed, i + 1, Imul(Xor32(h, <<0, CharCode(seed[i])>>), FnvPrime))

SeedHash(seed) == SeedLoop(seed, 1, FnvOffset)

seededRandom(seed) == [seeded |-> TRUE, h |-> SeedHash(seed), calls |-> 0]

\* lines 61-66: one call of the returned function: the new state and the
\* numerator of the returned fraction out / 4294967296
RandNext(h) ==
  LET h1 == Add32(h, RandIncrement)
      t1 == Imul(Xor32(h1, Shr32(h1, 15)), Or32(<<0, 1>>, h1))
      t2 == Xor32(t1, Add32(t1, Imul(Xor32(t1, Shr32(t1, 7)), Or32(<<0, 61>>, t1))))
  IN [out |-> Xor32(t2, Shr32(t2, 14)), h |-> h1]

\* Math.floor((out / 4294967296) * n) for a small n
FloorScale(out, n) == ((n * out[1]) + ((n * out[2]) \div Half)) \div Half

\* n successive calls, each scaled as line 321 does: the values and the final state
RECURSIVE RandRun(_, _)
RandRun(h, n) ==
  IF n = 0 THEN [vals |-> <<>>, h |-> h]
  ELSE IF n = 1
       THEN LET r == RandNext(h) IN [vals |-> <<FloorScale(r.out, RandRange)>>, h |-> r.h]
       ELSE LET first == RandRun(h, n \div 2)
                rest == RandRun(first.h, n - (n \div 2))
            IN [vals |-> first.vals \o rest.vals, h |-> rest.h]

(***************************************************************************)
(* Dates: new Date(ms), getFullYear, getMonth, getDate                     *)
(***************************************************************************)
\* the calendar date of a day counted from 1970-01-01
CivilFromDays(z0) ==
  LET z == z0 + 719468
      era == z \div 146097
      doe == z - (era * 146097)
      yoe == (doe - (doe \div 1460) + (doe \div 36524) - (doe \div 146096)) \div 365
      doy == doe - ((365 * yoe) + (yoe \div 4) - (yoe \div 100))
      mp == ((5 * doy) + 2) \div 153
      d == doy - (((153 * mp) + 2) \div 5) + 1
      m == IF mp < 10 THEN mp + 3 ELSE mp - 9
      y == yoe + (era * 400) + (IF m <= 2 THEN 1 ELSE 0)
  IN <<y, m, d>>

\* the local day a time falls in
DayOf(t) == t \div TicksPerDay

\* ymd(d): the key "YYYY-MM-DD" as <<year, month, day of the month>>
ymd(t) == CivilFromDays(DayOf(t))

(***************************************************************************)
(* The upstream page: a sequence of tokens.  A token is a piece of text    *)
(* the patterns of the parsers can tell apart: one of the four labels, a   *)
(* line break, other text without digits, a run of digits, or an ISO date. *)
(***************************************************************************)
NoDate == <<0, 0, 0>>
Lit(t) == [t |-> t, s |-> "", date |-> NoDate]
Num(s) == [t |-> "num", s |-> s, date |-> NoDate]
DateTok(d) == [t |-> "date", s |-> ToString(d[1]), date |-> d]

RatingLabel == Lit("rating-number\">")
HighestLabel == Lit("highest-rating\">")
GlobalLabel == Lit("Global Rank")
CountryLabel == Lit("Country Rank")
LineBreak == Lit("\n")
Text == Lit("<b>")

\* a token that begins with a digit, and the digits \d+ takes from it
StartsWithDigit(tok) == tok.t \in {"num", "date"}
Digits(tok) == tok.s

\* data.includes("404")
Includes404(html) == \E i \in DOMAIN html : html[i].t = "num" /\ html[i].s = "404"

(***************************************************************************)
(* parseProfileHtml, src/api/codechef.js 104-118                           *)
(***************************************************************************)
\* html.match(/<label>(\d+)/): the digits right after the first label that has some
MatchAdjacent(html, label) ==
  LET hits == {i \in 1..(Len(html) - 1) : html[i] = label /\ StartsWithDigit(html[i + 1])}
  IN IF hits = {} THEN Null
     ELSE Digits(html[(CHOOSE i \in hits : \A j \in hits : i <= j) + 1])

\* html.match(/<label>.*?(\d+)/): the first digits after the label on its line
MatchSameLine(html, label) ==
  LET ends(i) == {j \in (i + 1)..Len(html) :
                    /\ StartsWithDigit(html[j])
                    /\ \A k \in (i + 1)..(j - 1) : html[k] # LineBreak}
      hits == {i \in 1..Len(html) : html[i] = label /\ ends(i) # {}}
  IN IF hits = {} THEN Null
     ELSE LET i == CHOOSE x \in hits : \A y \in hits : x <= y
          IN Digits(html[CHOOSE j \in ends(i) : \A k \in ends(i) : j <= k])

\* html.match(/<label>[\s\S]*?(\d+)/i): the first digits anywhere after the label
MatchAnywhere(html, label) ==
  LET ends(i) == {j \in (i + 1)..Len(html) : StartsWithDigit(html[j])}
      hits == {i \in 1..Len(html) : html[i] = label /\ ends(i) # {}}
  IN IF hits = {} THEN Null
     ELSE LET i == CHOOSE x \in hits : \A y \in hits : x <= y
          IN Digits(html[CHOOSE j \in ends(i) : \A k \in ends(i) : j <= k])

\* a parser that gives up on every field as soon as the rating is missing
parseProfileHtmlAllOrNothing(html) ==
  IF MatchAdjacent(html, RatingLabel) = Null
  THEN [rating |-> Null, highest |-> Null, global |-> Null, country |-> Null]
  ELSE [rating |-> MatchAdjacent(html, RatingLabel),
        highest |-> MatchSameLine(html, HighestLabel),
        global |-> MatchAnywhere(html, GlobalLabel),
        country |-> MatchAnywhere(html, CountryLabel)]

parseProfileHtml(html) ==
  [rating |-> MatchAdjacent(html, RatingLabel),
   highest |-> MatchSameLine(html, HighestLabel),
   global |-> MatchAnywhere(html, GlobalLabel),
   country |-> MatchAnywhere(html, CountryLabel)]

NoProfile == [rating |-> Null, highest |-> Null, global |-> Null, country |-> Null]

(***************************************************************************)
(* parseActivityFromHtml, src/api/codechef.js 122-139                      *)
(***************************************************************************)
\* lines 126-133: the dates of the page in order, collection stopping past MaxDates
IsoDates(html) ==
  LET all == SelectSeq(html, LAMBDA tok : tok.t = "date")
  IN IF Len(all) > MaxDates THEN SubSeq(all, 1, MaxDates + 1) ELSE all

parseActivityFromHtml(html) ==
  LET isoDates == IsoDates(html)
      keys == {isoDates[i].date : i \in DOMAIN isoDates}
  IN IF Len(isoDates) < MinDates THEN NullMap
     ELSE MapOf([d \in keys |-> Cardinality({i \in DOMAIN isoDates : isoDates[i].date = d})])

(***************************************************************************)
(* colorForCount, src/api/codechef.js 70-86                                *)
(***************************************************************************)
\* a colour scale with one more step, for the counts above 10
colorForCountSixSteps(count, style) ==
  IF count = 0 THEN "#0f1720"
  ELSE IF count <= 1 THEN (IF style = "C" THEN "#20c997" ELSE "#0ea5a4")
  ELSE IF count <= 3 THEN (IF style = "C" THEN "#ffc107" ELSE "#0891b2")
  ELSE IF count <= 6 THEN (IF style = "C" THEN "#fd7e14" ELSE "#0369a1")
  ELSE IF count <= 10 THEN (IF style = "C" THEN "#e55353" ELSE "#075985")
  ELSE "#7f1d1d"

colorForCount(count, style) ==
  IF style = "C"
  THEN IF count = 0 THEN "#0f1720"
       ELSE IF count <= 1 THEN "#20c997"
       ELSE IF count <= 3 THEN "#ffc107"
       ELSE IF count <= 6 THEN "#fd7e14"
       ELSE "#e55353"
  ELSE IF count = 0 THEN "#0f1720"
       ELSE IF count = 1 THEN "#0ea5a4"
       ELSE IF count <= 3 THEN "#0891b2"
       ELSE IF count <= 6 THEN "#0369a1"
       ELSE "#075985"

(***************************************************************************)
(* buildHeatmapSvg, src/api/codechef.js 141-211                            *)
(***************************************************************************)
Cell == 12
Gap == 4
Margin == 10
CanvasPad == 20
Cols == 52
Rows == 7

\* lines 153-159: days[i], i = 0 the oldest
HeatmapDay(t, i) == t - (((Weeks * DaysPerWeek) - 1 - i) * OneDay)

\* counts read one day off: day i shows the count of day i + 1
HeatmapCountNextDay(m, t, i) ==
  LET key == ymd(HeatmapDay(t, i + 1))
  IN IF ~m.isNull /\ key \in DOMAIN m.map /\ m.map[key] # 0 THEN m.map[key] ELSE 0

\* lines 161-165: counts[i]
HeatmapCount(m, t, i) ==
  LET key == ymd(HeatmapDay(t, i))
  IN IF ~m.isNull /\ key \in DOMAIN m.map /\ m.map[key] # 0 THEN m.map[key] ELSE 0

\* a grid filled row by row: iteration (col, row) shows day row * Cols + col
HeatmapRectRowMajor(m, t, style, col, row) ==
  LET idx == (row * Cols) + col
  IN [idx |-> idx,
      x |-> Margin + (col * (Cell + Gap)),
      y |-> Margin + (row * (Cell + Gap)),
      width |-> Cell,
      height |-> Cell,
      fill |-> colorForCount(HeatmapCount(m, t, idx), style)]

\* lines 177-187: the rect of one iteration (col, row) of the nested loops; idx
\* is the day whose count it shows
HeatmapRect(m, t, style, col, row) ==
  LET idx == (col * Rows) + row
  IN [idx |-> idx,
      x |-> Margin + (col * (Cell + Gap)),
      y |-> Margin + (row * (Cell + Gap)),
      width |-> Cell,
      height |-> Cell,
      fill |-> colorForCount(HeatmapCount(m, t, idx), style)]

\* lines 189-201: the legend's swatches, Less to More
HeatmapLegend(style) ==
  <<colorForCount(0, style), colorForCount(1, style), colorForCount(3, style),
    colorForCount(6, style), colorForCount(10, style)>>

\* t is the value of new Date() at line 145; an iteration whose idx is past
\* the counts draws nothing (line 179)
buildHeatmapSvg(m, t, style) ==
  [rects |-> SelectSeq([k \in 1..(Cols * Rows) |->
                          HeatmapRect(m, t, style, (k - 1) \div Rows, (k - 1) % Rows)],
                       LAMBDA r : r.idx < Weeks * DaysPerWeek),
   width |-> (Cols * (Cell + Gap)) + CanvasPad,
   height |-> (Rows * (Cell + Gap)) + CanvasPad,
   legend |-> HeatmapLegend(style)]

NoHeatmap == [rects |-> <<>>, width |-> 0, height |-> 0, legend |-> <<>>]

(***************************************************************************)
(* buildProfileCardSvg, src/api/codechef.js 213-277                        *)
(***************************************************************************)
OrNA(v) == IF v = Null THEN "N/A" ELSE v

buildProfileCardSvg(fields, name) ==
  [kind |-> "svg",
   rating |-> OrNA(fields.rating),
   highest |-> OrNA(fields.highest),
   global |-> OrNA(fields.global),
   country |-> OrNA(fields.country),
   avatar |-> IF name = <<>> THEN "" ELSE name[1],
   text |-> ""]

(***************************************************************************)
(* The fallback activity loop, src/api/codechef.js 308-323                 *)
(***************************************************************************)
\* a loop that walks back from today: iteration i writes the day i days ago
RECURSIVE FallbackEntriesNewestFirst(_, _, _, _)
FallbackEntriesNewestFirst(vals, t, lo, hi) ==
  IF lo > hi THEN <<>>
  ELSE IF lo = hi
       THEN IF vals[lo + 1] > 0 THEN ymd(t - (lo * OneDay)) :> vals[lo + 1] ELSE <<>>
       ELSE LET mid == (lo + hi) \div 2
            IN FallbackEntriesNewestFirst(vals, t, mid + 1, hi)
                 @@ FallbackEntriesNewestFirst(vals, t, lo, mid)

\* the entries the iterations lo..hi of the loop write, a later one winning
RECURSIVE FallbackEntries(_, _, _, _)
FallbackEntries(vals, t, lo, hi) ==
  IF lo > hi THEN <<>>
  ELSE IF lo = hi
       THEN IF vals[lo + 1] > 0
            THEN ymd(t - (((Weeks * DaysPerWeek) - 1 - lo) * OneDay)) :> vals[lo + 1]
            ELSE <<>>
       ELSE LET mid == (lo + hi) \div 2
            IN FallbackEntries(vals, t, mid + 1, hi) @@ FallbackEntries(vals, t, lo, mid)

\* the usernames a query of the model can carry and the times a request of
\* the model can read
Usernames == {Trim(q) : q \in StringsUpTo(MaxUserLen)} \ {<<>>}
ModelTimes == (StartDay * TicksPerDay)..((StartDay * TicksPerDay) + (TicksPerDay - 1) + (MaxRuns * MaxDelay))

\* lines 311-322: the loop over a finished run of the generator; t is `now`
FallbackFill(run, t) ==
  [rand |-> [seeded |-> TRUE, h |-> run.h, calls |-> Len(run.vals)],
   vals |-> run.vals,
   map |-> FallbackEntries(run.vals, t, 0, (Weeks * DaysPerWeek) - 1)]

\* lines 309-322: rand = seededRandom(username), its 364 calls, and the map
\* they fill; the run is bound once and handed to the loop
FallbackLoop(name, t) ==
  CHOOSE loop \in {FallbackFill(run, t) :
                     run \in {RandRun(seededRandom(name).h, Weeks * DaysPerWeek)}} : TRUE

\* FallbackLoop over the usernames and times of the model, computed once
FallbackLoops ==
  {[name |-> k[1], t |-> k[2], loop |-> FallbackLoop(k[1], k[2])] : k \in Usernames \X ModelTimes}

FallbackActivity(name, t) ==
  (CHOOSE l \in FallbackLoops : l.name = name /\ l.t = t).loop

(***************************************************************************)
(* The environment: what the upstream can answer.                          *)
(***************************************************************************)
Variants == {"card", "badge", "fetchBadge"}
Statuses == {199, 200, 399, 400}

RatingChunk == <<RatingLabel, Num("1500"), Text>>
HighestChunk == <<HighestLabel, Text, Num("1800"), Text>>
GlobalChunk == <<GlobalLabel, LineBreak, Num("42"), Text>>
CountryChunk == <<CountryLabel, Text, Num("7")>>

\* a date k days before the day the request arrives
RecentDate(k) == DateTok(CivilFromDays(StartDay - k))
\* a date long before the window
OldDate(k) == DateTok(CivilFromDays(11400 + k))

TenSame == [i \in 1..MinDates |-> RecentDate(3)]
TenDistinct == [i \in 1..MinDates |-> RecentDate(i - 1)]
NineDistinct == [i \in 1..(MinDates - 1) |-> RecentDate(i - 1)]
TenOld == [i \in 1..MinDates |-> OldDate(i)]

FieldChunks == {RatingChunk, HighestChunk, GlobalChunk, CountryChunk}

\* the chunks of a page that shows the fields of S
ProfilePage(S) ==
  (IF RatingChunk \in S THEN <<RatingChunk>> ELSE <<>>)
    \o (IF HighestChunk \in S THEN <<HighestChunk>> ELSE <<>>)
    \o (IF GlobalChunk \in S THEN <<GlobalChunk>> ELSE <<>>)
    \o (IF CountryChunk \in S THEN <<CountryChunk>> ELSE <<>>)

\* the pages an upstream that answers sends, each a sequence of chunks
Pages ==
  {ProfilePage(S) : S \in SUBSET FieldChunks}
    \cup {<<TenSame>>, <<TenDistinct>>, <<NineDistinct>>, <<TenOld>>,
          <<RatingChunk, TenDistinct>>, <<<<GlobalLabel>>, TenSame>>,
          <<<<HighestLabel, LineBreak, Num("9")>>>>,
          <<<<RatingLabel, Text, Num("5")>>>>,
          <<<<GlobalLabel, Text>>, <<CountryLabel, Num("7")>>>>,
          <<<<Text, Num("404")>>>>}

\* the pages sent with any other status
ErrorPages == {<<>>, <<<<Text, Num("404")>>>>, <<RatingChunk, TenDistinct>>}

PagesFor(s) == IF s = 200 THEN Pages ELSE ErrorPages

StartClocks == {(StartDay * TicksPerDay) + k : k \in 0..(TicksPerDay - 1)}

(***************************************************************************)
(* The HTTP response (res) and the promise of the fetch.                   *)
(***************************************************************************)
SvgType == "image/svg+xml"
CacheHeader == "s-maxage=300, stale-while-revalidate=600"

NoBody == [kind |-> "none", rating |-> "", highest |-> "", global |-> "", country |-> "",
           avatar |-> "", text |-> ""]
TextBody(msg) == [NoBody EXCEPT !.kind = "text", !.text = msg]
BadgeBody(rating) == [NoBody EXCEPT !.kind = "svg", !.rating = rating]

NewResponse == [statusCode |-> 200, contentType |-> "", cacheControl |-> "",
                body |-> NoBody, ended |-> 0]

\* res.statusCode = code
SetStatus(r, code) == [r EXCEPT !.statusCode = code]
\* res.setHeader("Content-Type", type)
SetContentType(r, type) == [r EXCEPT !.contentType = type]
\* res.end(body)
End(r, body) == [r EXCEPT !.body = body, !.ended = r.ended + 1]
\* res.send(body) of the framework: a string body without a Content-Type gets text/html
Send(r, body) ==
  End([r EXCEPT !.contentType = IF r.contentType = "" THEN "text/html" ELSE r.contentType], body)

NoPromise == [state |-> "none", settled |-> 0]
Pending == [state |-> "pending", settled |-> 0]
\* a completion that every call of resolve or reject triggers again
SettleAgain(p, outcome) == [state |-> outcome, settled |-> p.settled + 1]

\* resolve(...) / reject(...): only the first call settles the promise
Settle(p, outcome) ==
  IF p.state = "pending" THEN [state |-> outcome, settled |-> p.settled + 1] ELSE p

NullHtml == [isNull |-> TRUE, html |-> <<>>]
NoRand == [seeded |-> FALSE, h |-> <<0, 0>>, calls |-> 0]

(***************************************************************************)
(* The initial state: a request has arrived.                               *)
(***************************************************************************)
HandlerIdle ==
  /\ username = <<>>
  /\ fetchCount = 0
  /\ req = "none"
  /\ page = <<>>
  /\ status = 0
  /\ data = <<>>
  /\ promise = NoPromise
  /\ res = NewResponse
  /\ now = 0
  /\ today = 0
  /\ profileHtml = NullHtml
  /\ parsed = NoProfile
  /\ activityMap = NullMap
  /\ usedActivity = NullMap
  /\ rand = NoRand
  /\ heatmap = NoHeatmap

PureIdle ==
  /\ countArg = <<0, 0, "C">>
  /\ colorRet = <<"", "">>
  /\ runs = <<>>

Init ==
  /\ variant \in Variants
  /\ query \in QueryValues
  /\ pc = "start"
  /\ clock \in StartClocks
  /\ HandlerIdle
  /\ PureIdle

pureVars == <<countArg, colorRet, runs>>
cardVars == <<now, today, profileHtml, parsed, activityMap, usedActivity, rand, heatmap>>
fetchVars == <<fetchCount, req, page, status, data, promise>>

(***************************************************************************)
(* fetchUrlRaw, src/api/codechef.js 88-101, and the outbound request       *)
(***************************************************************************)
\* https.get(url, ...): the request is on its way
StartRequest ==
  /\ fetchCount' = fetchCount + 1
  /\ req' = "open"
  /\ UNCHANGED <<page, status, data>>

\* the card + heatmap handler, lines 279-292, up to the await
CardStart ==
  /\ variant = "card"
  /\ pc = "start"
  /\ username' = Trim(IF Falsy(query) THEN <<>> ELSE query)
  /\ IF Falsy(username')
     THEN /\ res' = End(SetStatus(res, 400), TextBody("Missing ?user=username"))
          /\ pc' = "done"
          /\ UNCHANGED fetchVars
     ELSE /\ StartRequest
          /\ promise' = Pending
          /\ pc' = "awaitFetch"
          /\ res' = res
  /\ UNCHANGED <<variant, query, clock, cardVars, pureVars>>

\* the badge handler, lines 3-14
BadgeStart ==
  /\ variant = "badge"
  /\ pc = "start"
  /\ username' = query
  /\ IF Falsy(query)
     THEN /\ res' = Send(SetStatus(res, 400), TextBody("Missing ?user=username"))
          /\ pc' = "done"
          /\ UNCHANGED fetchVars
     ELSE /\ StartRequest
          /\ promise' = promise
          /\ pc' = "listening"
          /\ res' = res
  /\ UNCHANGED <<variant, query, clock, cardVars, pureVars>>

\* the fetch-based badge handler, part_000 lines 3-11
FetchBadgeStart ==
  /\ variant = "fetchBadge"
  /\ pc = "start"
  /\ username' = query
  /\ IF Falsy(query)
     THEN /\ res' = Send(SetStatus(res, 400), TextBody("User is required: ?user=username"))
          /\ pc' = "done"
          /\ UNCHANGED fetchVars
     ELSE /\ StartRequest
          /\ promise' = Pending
          /\ pc' = "awaitFetch"
          /\ res' = res
  /\ UNCHANGED <<variant, query, clock, cardVars, pureVars>>

(***************************************************************************)
(* The upstream's events and the listeners the handlers registered.        *)
(***************************************************************************)
\* the response's head arrives; fetch() of part_000 resolves with it
UpResponse ==
  /\ req = "open"
  /\ \E s \in Statuses : \E p \in PagesFor(s) :
       /\ status' = s
       /\ page' = p
  /\ req' = "receiving"
  /\ data' = <<>>
  /\ promise' = IF variant = "fetchBadge" THEN Settle(promise, "fulfilled") ELSE promise
  /\ UNCHANGED <<variant, query, username, pc, fetchCount, res, clock, cardVars, pureVars>>

\* res.on("data", chunk => data += chunk)
UpData ==
  /\ req = "receiving"
  /\ page # <<>>
  /\ data' = data \o Head(page)
  /\ page' = Tail(page)
  /\ UNCHANGED <<variant, query, username, pc, fetchCount, req, status, promise, res, clock,
                 cardVars, pureVars>>

\* fetchUrlRaw line 93: res.on("end", () => resolve({status, body}))
CardOnEnd ==
  /\ variant = "card"
  /\ req = "receiving"
  /\ page = <<>>
  /\ req' = "ended"
  /\ promise' = Settle(promise, "fulfilled")
  /\ UNCHANGED <<variant, query, username, pc, fetchCount, page, status, data, res, clock,
                 cardVars, pureVars>>

\* fetchUrlRaw line 95: req.on("error", err => reject(err)); the response and
\* its buffer are dropped with the socket
CardOnError ==
  /\ variant = "card"
  /\ req \in {"open", "receiving"}
  /\ req' = "errored"
  /\ page' = <<>>
  /\ data' = <<>>
  /\ promise' = Settle(promise, "rejected")
  /\ UNCHANGED <<variant, query, username, pc, fetchCount, status, res, clock, cardVars, pureVars>>

\* fetchUrlRaw lines 96-99: the timeout fires: req.abort(); reject(new Error("timeout"))
CardOnTimeout ==
  /\ variant = "card"
  /\ req \in {"open", "receiving"}
  /\ req' = "aborted"
  /\ page' = <<>>
  /\ data' = <<>>
  /\ promise' = Settle(promise, "rejected")
  /\ UNCHANGED <<variant, query, username, pc, fetchCount, status, res, clock, cardVars, pureVars>>

\* the 'error' event the abort causes reaches line 95: reject(err) once more
CardOnAbortError ==
  /\ variant = "card"
  /\ req = "aborted"
  /\ req' = "closed"
  /\ promise' = Settle(promise, "rejected")
  /\ UNCHANGED <<variant, query, username, pc, fetchCount, page, status, data, res, clock,
                 cardVars, pureVars>>

\* data.match(/rating-number">(\d+)</)
BadgeRating(html) ==
  LET hits == {i \in 1..(Len(html) - 2) :
                 html[i] = RatingLabel /\ html[i + 1].t = "num" /\ html[i + 2] = Text}
  IN IF hits = {} THEN "N/A"
     ELSE Digits(html[(CHOOSE i \in hits : \A j \in hits : i <= j) + 1])

\* the badge handler, lines 21-42: response.on("end", ...)
BadgeOnEnd ==
  /\ variant = "badge"
  /\ req = "receiving"
  /\ page = <<>>
  /\ req' = "ended"
  /\ res' = IF Includes404(data)
            THEN Send(SetStatus(res, 404), TextBody("User not found"))
            ELSE Send(SetContentType(res, SvgType), BadgeBody(BadgeRating(data)))
  /\ pc' = "done"
  /\ UNCHANGED <<variant, query, username, fetchCount, page, status, data, promise, clock,
                 cardVars, pureVars>>

\* the badge handler, lines 44-46: .on("error", ...)
BadgeOnError ==
  /\ variant = "badge"
  /\ req \in {"open", "receiving"}
  /\ req' = "errored"
  /\ page' = <<>>
  /\ data' = <<>>
  /\ res' = Send(SetStatus(res, 500), TextBody("Server error"))
  /\ pc' = "done"
  /\ UNCHANGED <<variant, query, username, fetchCount, status, promise, clock, cardVars, pureVars>>

\* part_000: the body has arrived whole, response.text() resolves
FetchOnEnd ==
  /\ variant = "fetchBadge"
  /\ req = "receiving"
  /\ page = <<>>
  /\ req' = "ended"
  /\ UNCHANGED <<variant, query, username, pc, fetchCount, page, status, data, promise, res,
                 clock, cardVars, pureVars>>

\* part_000: the request fails: fetch() rejects, or response.text() does
FetchOnError ==
  /\ variant = "fetchBadge"
  /\ req \in {"open", "receiving"}
  /\ req' = "errored"
  /\ page' = <<>>
  /\ data' = <<>>
  /\ promise' = Settle(promise, "rejected")
  /\ UNCHANGED <<variant, query, username, pc, fetchCount, status, res, clock, cardVars, pureVars>>

(***************************************************************************)
(* The card + heatmap handler after the await, lines 290-335.  new Date()  *)
(* is read at line 310 and again at line 145: d1 and d2 are the ticks that *)
(* pass before each read.                                                  *)
(***************************************************************************)
Truthy(h) == ~h.isNull /\ h.html # <<>>

CardFinish ==
  /\ variant = "card"
  /\ pc = "awaitFetch"
  /\ promise.state \in {"fulfilled", "rejected"}
  /\ profileHtml' = IF promise.state = "fulfilled" /\ status >= 200 /\ status < 400
                    THEN [isNull |-> FALSE, html |-> data]
                    ELSE NullHtml
  /\ parsed' = IF Truthy(profileHtml') THEN parseProfileHtml(profileHtml'.html) ELSE NoProfile
  /\ activityMap' = IF Truthy(profileHtml') THEN parseActivityFromHtml(profileHtml'.html)
                    ELSE NullMap
  /\ \E d1 \in 0..MaxDelay : \E d2 \in 0..MaxDelay :
       IF activityMap'.isNull
       THEN \* line 310: const now = new Date(), then line 145: const today = new Date()
            \E fallback \in {FallbackActivity(username, clock + d1)} :
              /\ now' = clock + d1
              /\ rand' = fallback.rand
              /\ usedActivity' = MapOf(fallback.map)
              /\ today' = now' + d2
       ELSE \* line 145 alone
            /\ UNCHANGED <<now, rand>>
            /\ usedActivity' = activityMap'
            /\ today' = clock + d2
  /\ clock' = today'
  /\ heatmap' = buildHeatmapSvg(usedActivity', today', "C")
  /\ res' = End([SetContentType(res, SvgType) EXCEPT !.cacheControl = CacheHeader],
                buildProfileCardSvg(parsed', username))
  /\ pc' = "done"
  /\ UNCHANGED <<variant, query, username, fetchVars, pureVars>>

(***************************************************************************)
(* The fetch-based badge handler after its awaits, part_000 lines 9-35.    *)
(***************************************************************************)
\* html.match(/"rating-number">\s*(\d+)\s*</)
RECURSIVE SkipBreaks(_, _)
SkipBreaks(html, i) ==
  IF i <= Len(html) /\ html[i] = LineBreak THEN SkipBreaks(html, i + 1) ELSE i

FetchBadgeRating(html) ==
  LET digitsAt(i) == SkipBreaks(html, i + 1)
      closeAt(i) == SkipBreaks(html, digitsAt(i) + 1)
      hits == {i \in 1..Len(html) :
                 /\ html[i] = RatingLabel
                 /\ closeAt(i) <= Len(html)
                 /\ html[digitsAt(i)].t = "num"
                 /\ html[closeAt(i)] = Text}
  IN IF hits = {} THEN "N/A"
     ELSE Digits(html[digitsAt(CHOOSE i \in hits : \A j \in hits : i <= j)])

\* lines 13-14: response.ok is status in 200..299
FetchBadgeResponse ==
  /\ variant = "fetchBadge"
  /\ pc = "awaitFetch"
  /\ promise.state = "fulfilled"
  /\ IF status >= 200 /\ status <= 299
     THEN pc' = "awaitText" /\ res' = res
     ELSE /\ res' = Send(SetStatus(res, 404), TextBody("User not found on CodeChef"))
          /\ pc' = "done"
  /\ UNCHANGED <<variant, query, username, fetchVars, clock, cardVars, pureVars>>

\* lines 16-35
FetchBadgeText ==
  /\ variant = "fetchBadge"
  /\ pc = "awaitText"
  /\ req = "ended"
  /\ res' = Send(SetStatus(SetContentType(res, SvgType), 200), BadgeBody(FetchBadgeRating(data)))
  /\ pc' = "done"
  /\ UNCHANGED <<variant, query, username, fetchVars, clock, cardVars, pureVars>>

\* an await throws and nothing catches it: the handler ends without writing res
FetchBadgeThrow ==
  /\ variant = "fetchBadge"
  /\ pc \in {"awaitFetch", "awaitText"}
  /\ req = "errored"
  /\ pc' = "crashed"
  /\ UNCHANGED <<variant, query, username, fetchVars, res, clock, cardVars, pureVars>>

Next ==
  \/ CardStart
  \/ BadgeStart
  \/ FetchBadgeStart
  \/ UpResponse
  \/ UpData
  \/ CardOnEnd
  \/ CardOnError
  \/ CardOnTimeout
  \/ CardOnAbortError
  \/ BadgeOnEnd
  \/ BadgeOnError
  \/ FetchOnEnd
  \/ FetchOnError
  \/ CardFinish
  \/ FetchBadgeResponse
  \/ FetchBadgeText
  \/ FetchBadgeThrow

Spec == Init /\ [][Next]_vars

(***************************************************************************)
(* The pure functions on their own: colorForCount on two counts,           *)
(* buildHeatmapSvg on an activity map, and the fallback loop run more than *)
(* once.                                                                   *)
(***************************************************************************)
Styles == {"C", "G"}

\* a map with the single entry count for the day k days before StartDay
SingleDay(k, count) == MapOf(CivilFromDays(StartDay - k) :> count)

HeatmapInputs ==
  {NullMap, MapOf(<<>>)}
    \cup {SingleDay(k, count) : k \in {-1, 0, 1, 8, Days - 2, Days - 1, Days}, count \in {0, 1, 5}}
    \cup {parseActivityFromHtml(TenDistinct), parseActivityFromHtml(TenSame),
          parseActivityFromHtml(TenOld)}

PureInit ==
  /\ variant = "pure"
  /\ query = Undefined
  /\ HandlerIdle
  /\ clock \in StartClocks
  /\ colorRet = <<"", "">>
  /\ runs = <<>>
  /\ pc \in {"colorForCount", "buildHeatmapSvg", "fallback"}
  /\ countArg \in (0..MaxCount) \X (0..MaxCount) \X Styles
  /\ pc # "colorForCount" => countArg[1] = 0 /\ countArg[2] = 0
  /\ pc = "fallback" => countArg[3] = "C"
  /\ pc = "colorForCount" => clock = StartDay * TicksPerDay

\* colorForCount(a, style) and colorForCount(b, style)
ApplyColorForCount ==
  /\ pc = "colorForCount"
  /\ colorRet' = <<colorForCount(countArg[1], countArg[3]), colorForCount(countArg[2], countArg[3])>>
  /\ pc' = "returned"
  /\ UNCHANGED <<variant, query, username, fetchVars, res, clock, cardVars, countArg, runs>>

\* buildHeatmapSvg(m, username, {style})
ApplyBuildHeatmapSvg ==
  /\ pc = "buildHeatmapSvg"
  /\ \E m \in HeatmapInputs : \E d \in 0..MaxDelay :
       /\ usedActivity' = m
       /\ today' = clock + d
       /\ clock' = today'
       /\ heatmap' = buildHeatmapSvg(m, today', countArg[3])
  /\ pc' = "returned"
  /\ UNCHANGED <<variant, query, username, fetchVars, res, now, profileHtml, parsed, activityMap,
                 rand, pureVars>>

\* lines 308-323 once more, for some username, some time later
ApplyFallback ==
  /\ pc = "fallback"
  /\ Len(runs) < MaxRuns
  /\ \E name \in Usernames : \E d \in 0..MaxDelay :
       \E fallback \in {FallbackActivity(name, clock + d)} :
          /\ clock' = clock + d
          /\ runs' = Append(runs, [username |-> name, now |-> clock', rand |-> fallback.rand,
                                   activity |-> fallback.map])
  /\ UNCHANGED <<variant, query, username, pc, fetchVars, res, cardVars, countArg, colorRet>>

PureNext ==
  \/ ApplyColorForCount
  \/ ApplyBuildHeatmapSvg
  \/ ApplyFallback

PureSpec == PureInit /\ [][PureNext]_vars

(***************************************************************************)
(* Properties of the handlers.                                             *)
(***************************************************************************)
Blank(q) == q = Undefined \/ Trim(q) = <<>>
AllNA(body) ==
  body.rating = "N/A" /\ body.highest = "N/A" /\ body.global = "N/A" /\ body.country = "N/A"
FetchFailed == promise.state = "rejected" \/ status < 200 \/ status >= 400
CardDone == variant = "card" /\ pc = "done" /\ fetchCount = 1
UsedFallback == rand.seeded /\ usedActivity = MapOf(FallbackActivity(username, now).map)

\* the text of a page: its chunks, concatenated
RECURSIVE PageText(_)
PageText(p) == IF p = <<>> THEN <<>> ELSE Head(p) \o PageText(Tail(p))

\* C1: for a `user` that is not blank, whatever the outcome of the fetch, the
\* card handler and the badge handler end with a 200 image/svg+xml response
C1_Always200Svg ==
  (variant \in {"card", "badge"} /\ ~Blank(query) /\ pc = "done")
    => (res.statusCode = 200 /\ res.contentType = SvgType)

\* C2: for a `user` that is missing, empty or blank, the card handler and the
\* fetch-based badge handler respond 400 with a text body, start no fetch and
\* never set the SVG content type
C2_BlankUserIs400 ==
  (variant \in {"card", "fetchBadge"} /\ Blank(query) /\ pc # "start")
    => /\ res.statusCode = 400
       /\ res.body.kind = "text"
       /\ res.contentType # SvgType
       /\ fetchCount = 0
       /\ pc = "done"

\* C3: the card handler always answers 200 with the SVG card; when the fetch
\* failed, timed out or came back with a status outside 200..399, the four
\* fields read N/A and the activity is the fallback generator's; when a page
\* showing the fields S arrived, exactly the fields outside S read N/A
C3_FieldsFallBack ==
  CardDone =>
    /\ res.statusCode = 200
    /\ res.contentType = SvgType
    /\ res.body.kind = "svg"
    /\ res.ended = 1
    /\ FetchFailed => (AllNA(res.body) /\ UsedFallback /\ rand.calls = Days)
    /\ ~FetchFailed =>
         \A S \in SUBSET FieldChunks :
           data = PageText(ProfilePage(S)) =>
             /\ res.body.rating = (IF RatingChunk \in S THEN "1500" ELSE "N/A")
             /\ res.body.highest = (IF HighestChunk \in S THEN "1800" ELSE "N/A")
             /\ res.body.global = (IF GlobalChunk \in S THEN "42" ELSE "N/A")
             /\ res.body.country = (IF CountryChunk \in S THEN "7" ELSE "N/A")

\* a page with the highest rating and the country rank only has been rendered
C3_Witness ==
  /\ CardDone
  /\ ~FetchFailed
  /\ data = PageText(ProfilePage({HighestChunk, CountryChunk}))
  /\ res.body.rating = "N/A"
  /\ res.body.highest = "1800"
  /\ res.body.global = "N/A"
  /\ res.body.country = "7"

\* the distinct dates of the page the handler kept
DistinctDays(h) ==
  IF h.isNull THEN 0
  ELSE Cardinality({h.html[i].date : i \in {j \in DOMAIN h.html : h.html[j].t = "date"}})

\* C8: when the page shows fewer than 10 distinct dates, the card handler
\* renders the fallback generator's map
C8_FewDistinctDaysFallBack ==
  (CardDone /\ DistinctDays(profileHtml) < MinDates) => UsedFallback

Window(t) == {CivilFromDays(DayOf(t) - k) : k \in 0..(Days - 1)}

\* C10: when the card handler used the fallback generator, every key of the
\* map is a day of the rendered window and cell i shows the i-th count
C10_FallbackInsideWindow ==
  (CardDone /\ rand.seeded) =>
    /\ DOMAIN usedActivity.map \subseteq Window(today)
    /\ \A i \in 1..Days :
         heatmap.rects[i].fill = colorForCount(FallbackActivity(username, now).vals[i], "C")

(***************************************************************************)
(* Properties of the pure functions.                                       *)
(***************************************************************************)
\* the five ranges the code tells apart, and the six the specification names
Range5(n) == IF n = 0 THEN 0 ELSE IF n <= 1 THEN 1 ELSE IF n <= 3 THEN 2 ELSE IF n <= 6 THEN 3 ELSE 4
Range6(n) == IF n <= 6 THEN Range5(n) ELSE IF n <= 10 THEN 4 ELSE 5

\* the tier of a colour: its place among the legend's swatches, Less to More
Tier(colour, style) == CHOOSE k \in 1..5 : HeatmapLegend(style)[k] = colour

ColorReturned == variant = "pure" /\ pc = "returned" /\ colorRet # <<"", "">>

HeatmapReturned == variant = "pure" /\ pc = "returned" /\ heatmap # NoHeatmap

\* the key of the day with index i (0 the oldest) of the window that ends at `today`
DayKey(i) == CivilFromDays(DayOf(today) - ((Days - 1) - i))
Absent(key) == usedActivity.isNull \/ key \notin DOMAIN usedActivity.map
GridOrigins == {<<10 + (16 * col), 10 + (16 * row)>> : col \in 0..51, row \in 0..6}

\* C5: whatever the activity map, buildHeatmapSvg draws 364 cells, one at each
\* place of the 52 x 7 grid, a day absent from the map in the colour of count 0
C5_AlwaysFullGrid ==
  HeatmapReturned =>
    /\ Len(heatmap.rects) = 364
    /\ {<<heatmap.rects[k].x, heatmap.rects[k].y>> : k \in 1..Len(heatmap.rects)} = GridOrigins
    /\ Cardinality(GridOrigins) = 364
    /\ \A k \in 1..Len(heatmap.rects) :
         Absent(DayKey(heatmap.rects[k].idx)) => heatmap.rects[k].fill = "#0f1720"

\* a map whose only day lies outside the window has been drawn, all cells dark
C5_Witness ==
  /\ HeatmapReturned
  /\ ~usedActivity.isNull
  /\ \E key \in DOMAIN usedActivity.map : usedActivity.map[key] > 0
  /\ \A key \in DOMAIN usedActivity.map : \A i \in 0..(Days - 1) : key # DayKey(i)
  /\ \A k \in 1..Len(heatmap.rects) : heatmap.rects[k].fill = "#0f1720"

\* the count the map holds for the day with index i
CountOfDay(i) == IF Absent(DayKey(i)) THEN 0 ELSE usedActivity.map[DayKey(i)]

\* C7: the cell of day i stands at column i div 7 and row i mod 7, 16 apart
\* from the margin (10, 10), and shows the colour of that day's count; every
\* cell of 12 x 12 fits the canvas of 852 x 132
C7_ColumnMajorLayout ==
  HeatmapReturned =>
    /\ heatmap.width = (52 * (12 + 4)) + 20
    /\ heatmap.height = (7 * (12 + 4)) + 20
    /\ heatmap.rects[1].x = 10 /\ heatmap.rects[1].y = 10 /\ heatmap.rects[1].idx = 0
    /\ \A i \in 0..(Days - 1) :
         LET r == heatmap.rects[i + 1]
         IN /\ r.x = 10 + ((i \div 7) * 16)
            /\ r.y = 10 + ((i % 7) * 16)
            /\ r.width = 12 /\ r.height = 12
            /\ r.x + r.width <= heatmap.width
            /\ r.y + r.height <= heatmap.height
            /\ r.fill = colorForCount(CountOfDay(i), countArg[3])

\* a map with 5 for one day of the window has been drawn: the day 8 days before
\* StartDay, read on StartDay, is day 355, at column 50, row 5
C7_Witness ==
  /\ HeatmapReturned
  /\ usedActivity = SingleDay(8, 5)
  /\ DayOf(today) = StartDay
  /\ countArg[3] = "C"
  /\ \A k \in 1..Len(heatmap.rects) :
       heatmap.rects[k].fill # "#0f1720" <=> (heatmap.rects[k].x = 810 /\ heatmap.rects[k].y = 90)

\* C6: two runs of the fallback loop for the same username on the same date
\* fill the same map; every run advances the generator 364 times; and the
\* values come oldest day first: for the username "a" the generator starts
\* 5, 2, 3 and ends 1, 3, which are the counts of the three oldest days and of
\* yesterday and today
C6_FallbackDeterministic ==
  \A i \in DOMAIN runs :
    /\ runs[i].rand.calls = 364
    /\ \A j \in DOMAIN runs :
         (runs[i].username = runs[j].username /\ ymd(runs[i].now) = ymd(runs[j].now))
           => runs[i].activity = runs[j].activity
    /\ runs[i].username = <<"a">> =>
         LET key(k) == CivilFromDays(DayOf(runs[i].now) - k)
         IN /\ runs[i].activity[key(363)] = 5
            /\ runs[i].activity[key(362)] = 2
            /\ runs[i].activity[key(361)] = 3
            /\ runs[i].activity[key(1)] = 1
            /\ runs[i].activity[key(0)] = 3

\* the loop has run twice for "a" on one date, at two different times
C6_Witness ==
  /\ Len(runs) = 2
  /\ runs[1].username = <<"a">>
  /\ runs[2].username = <<"a">>
  /\ runs[1].now # runs[2].now
  /\ ymd(runs[1].now) = ymd(runs[2].now)
  /\ runs[1].activity = runs[2].activity

====
